---- MODULE Spec2Model ----
(***************************************************************************)
(* The gateway state cache of src/src/core/cache/mod.rs (struct Cache and  *)
(* Cache::update) as a state machine.  One action is one call of           *)
(* Cache::update for one event, run to its end.                            *)
(*                                                                         *)
(* Arc<CachedUser> records are objects with identity: heap maps a          *)
(* reference to the record, the user index and the members of a guild hold *)
(* references.  A record that nothing references any more is dropped, as   *)
(* the last Arc going away drops it.                                       *)
(*                                                                         *)
(* AtomicU64 values (mutual_servers, missing_per_shard) are kept as the    *)
(* representative in (-2^63, 2^63) of their residue modulo 2^64: a         *)
(* negative n stands for the unsigned value 2^64 + n, which is what        *)
(* fetch_sub leaves behind when it wraps below 0.                          *)
(***************************************************************************)
EXTENDS Integers, Sequences, FiniteSets, TLC

\* ------------------------------------------------------------- bounds
NumGuilds == 2
NumUsers == 1
NumShards == 1
\* chunk_count of a member-chunk dump answering RequestGuildMembers::new_all
NumPages == 2
\* channels / emoji a guild can have
MaxChan == 1
MaxEmoji == 1
\* caps on the counters: how high they go, and how far below 0
MaxCount == 2
MaxWrap == 1
MaxReady == 2
MaxPartial == 2
MaxUnavailable == 2
MaxRetries == 1
\* calls of update that run concurrently, step by step
NumTasks == 2
\* chunks of one kind a resume token can name
MaxChunks == 2
\* guilds in a cache whose partition into work orders is computed
MaxSnapGuilds == 3

\* the entity count above which prepare_cold_resume closes a work order
Ceiling == 100000
\* the users one user chunk is meant for
UsersPerChunk == 100000

Guilds == 1..NumGuilds
Users == 1..NumUsers
Shards == 0..(NumShards - 1)
Pages == 0..(NumPages - 1)
Names == {"a", "b"}
Tasks == 1..NumTasks
ChannelsOf(g) == {<<g, i>> : i \in 1..MaxChan}
EmojiOf(g) == {<<g, i>> : i \in 1..MaxEmoji}
\* the shard a guild's events are delivered on (update's shard_id)
ShardOf(g) == g % NumShards

VARIABLES
    guilds,             \* Cache.guilds: guild id -> CachedGuild
    guild_channels,     \* Cache.guild_channels: the ids in the global index
    emoji,              \* Cache.emoji: the ids in the global index
    users,              \* Cache.users: user id -> reference of the record
    heap,               \* the CachedUser records alive, by reference
    filling,            \* Cache.filling
    unavailable_guilds, \* Cache.unavailable_guilds
    missing_per_shard,  \* Cache.missing_per_shard: shard -> counter
    partial,            \* Cache.stats.guild_counts.partial
    shard_states,       \* ctx.shard_states
    retries,            \* MemberUpdate events whose delayed retry is pending
    last,               \* history: the guild the last call of update created
    pages,              \* history: pages processed since the guild record was made
    deleted,            \* history: GuildDelete hit the record since it was made
    tries,              \* history: the attempts of the MemberUpdate events
    tasks,              \* calls of update for removals running step by step
    store,              \* the external store: chunk key -> contents
    token,              \* what prepare_cold_resume returned, with its history
    frost,              \* the call of restore_cold_resume
    orders              \* guild sizes handed to the partition, and its result

\* what the gateway events handled in one piece leave alone
side == <<tasks, store, token, frost, orders>>

aux == <<tries, side>>

vars == <<guilds, guild_channels, emoji, users, heap, filling,
          unavailable_guilds, missing_per_shard, partial, shard_states,
          retries, last, pages, deleted, aux>>

\* ------------------------------------------------------------ helpers
Restrict(f, S) == [x \in S |-> f[x]]
Put(f, k, v) == [x \in (DOMAIN f) \cup {k} |-> IF x = k THEN v ELSE f[x]]
Drop(f, k) == [x \in (DOMAIN f) \ {k} |-> f[x]]
Min(S) == CHOOSE x \in S : \A y \in S : x <= y

\* as unsigned 64-bit values
U64IsZero(n) == n = 0
U64Positive(n) == n # 0

NewRef(h) == Min({r \in 1..(Cardinality(DOMAIN h) + 1) : r \notin DOMAIN h})

\* the references held by the calls of update in progress: the member a
\* MemberRemove took out of its guild
Held(ts) ==
    {ts[t].ref : t \in {x \in DOMAIN ts : ts[x].pc \in {"sub", "evict", "add", "insert"}}}

\* the references held by the index, by the members of the cached guilds and
\* by the calls in progress
Referenced(us, gs) ==
    {us[u] : u \in DOMAIN us}
        \cup UNION {{gs[g].members[u] : u \in DOMAIN gs[g].members} : g \in DOMAIN gs}
        \cup Held(tasks)

\* dropping the records no Arc points to
Collect(h, us, gs) == Restrict(h, (DOMAIN h) \cap Referenced(us, gs))

\* what last holds when the last call of update was no GuildCreate that
\* inserted its guild; after one that did, gid is the guild and repeat says
\* that the call before it was the same GuildCreate, with the same payload
NoCreate == [gid |-> 0, repeat |-> FALSE]

\* what tries.done holds before any MemberUpdate event was dealt with; after
\* one was, attempts is the number of calls of member_update made for it,
\* applied the number of times they replaced the member, and missing says
\* that the first call found the guild cached and the member missing.
\* tries.first holds the events with a second attempt pending whose first
\* call found the guild cached and the member missing
NoTries == [attempts |-> 0, applied |-> 0, missing |-> FALSE]

\* a task that handles no event
Idle == [pc |-> "idle"]

\* no snapshot was taken
NoSnap == [guilds |-> {}, members |-> <<>>, users |-> {}]

NoToken == [guilds |-> 0, users |-> 0, taken |-> FALSE, intact |-> FALSE, snap |-> NoSnap]

\* restore_cold_resume is not running and has not run since the start
NoFrost ==
    [phase |-> "none", guild_chunks |-> 0, user_chunks |-> 0, todo |-> {},
     failed |-> {}, restored |-> {}, bad |-> {}, tag |-> "", trip |-> FALSE]

\* no partition was asked for
NoOrders == [sizes |-> <<>>, made |-> <<>>, run |-> FALSE]

\* the sequences that list every element of S once: the orders in which a
\* DashMap can be iterated
Perms(S) ==
    {f \in [1..Cardinality(S) -> S] : \A i, j \in 1..Cardinality(S) : f[i] = f[j] => i = j}

RECURSIVE Sum(_, _)
Sum(f, S) == IF S = {} THEN 0 ELSE LET x == Min(S) IN f[x] + Sum(f, S \ {x})

\* CachedUser::from_user: a record of its own, counter 0
FromUser(u, name) == [id |-> u, name |-> name, mutual_servers |-> 0]

\* CachedUser::is_same_as
IsSameAs(rec, name) == rec.name = name

\* Cache::get_or_insert_user on the store st = [users, heap]
GetOrInsertUser(st, u, name) ==
    IF u \in DOMAIN st.users
    THEN st
    ELSE LET r == NewRef(st.heap)
         IN  [users |-> Put(st.users, u, r),
              heap |-> Put(st.heap, r, FromUser(u, name))]

\* CachedGuild::from(payload): no member yet, not complete
GuildFrom(chans, ems) ==
    [channels |-> chans, emoji |-> ems, members |-> <<>>, complete |-> FALSE]

\* CachedMember::from_member, then mutual_servers.fetch_add(1) and
\* guild.members.insert, on cs = [users, heap, members]
InsertMember(cs, u, name) ==
    LET st == GetOrInsertUser([users |-> cs.users, heap |-> cs.heap], u, name)
        r == st.users[u]
    IN  [users |-> st.users,
         heap |-> [st.heap EXCEPT ![r].mutual_servers = @ + 1],
         members |-> Put(cs.members, u, r)]

\* a test that also passes for a value read above 1
ReachedZeroOrMore(servers) == servers >= 1

\* the value fetch_sub(1) read was 1: the counter has reached zero
ReachedZero(servers) == servers = 1

\* one member's turn in the loops of nuke_guild_cache and of MemberRemove:
\* fetch_sub(1), and the user leaves the index when the value read was 1
ReleaseUser(st, u, r) ==
    [users |-> IF ReachedZero(st.heap[r].mutual_servers)
               THEN Drop(st.users, u) ELSE st.users,
     heap |-> [st.heap EXCEPT ![r].mutual_servers = @ - 1]]

RECURSIVE ReleaseMembers(_, _, _)
ReleaseMembers(st, members, todo) ==
    IF todo = {}
    THEN st
    ELSE LET u == Min(todo)
         IN  ReleaseMembers(ReleaseUser(st, u, members[u]), members, todo \ {u})

\* Cache::nuke_guild_cache on nk = [guild_channels, emoji, users, heap]
NukeGuildCache(nk, guild) ==
    LET st == ReleaseMembers([users |-> nk.users, heap |-> nk.heap],
                             guild.members, DOMAIN guild.members)
    IN  [guild_channels |-> nk.guild_channels \ guild.channels,
         emoji |-> nk.emoji \ guild.emoji,
         users |-> st.users,
         heap |-> st.heap]

Cached(g) == g \in DOMAIN guilds

\* the guilds get_guild returns that hold user u as a member
GuildsWith(u) == {g \in DOMAIN guilds : u \in DOMAIN guilds[g].members}

\* every counter a release of these members touches stays within the caps
CanRelease(members) ==
    \A u \in DOMAIN members : heap[members[u]].mutual_servers > -MaxWrap

\* the counter an insert of user u would increment stays within the caps
CanInsert(u) == u \in DOMAIN users => heap[users[u]].mutual_servers < MaxCount

\* list.iter().position(..) and list.remove(index): the first occurrence goes
RemoveFirst(list, g) ==
    IF \E i \in 1..Len(list) : list[i] = g
    THEN LET i == Min({j \in 1..Len(list) : list[j] = g})
         IN  SubSeq(list, 1, i - 1) \o SubSeq(list, i + 1, Len(list))
    ELSE list

\* ------------------------------------------------------------ initial state
\* everything Cache::new sets up, and nothing asked of the cache yet
Fresh ==
    /\ guilds = <<>>
    /\ guild_channels = {}
    /\ emoji = {}
    /\ users = <<>>
    /\ heap = <<>>
    /\ filling = TRUE
    /\ unavailable_guilds = <<>>
    /\ missing_per_shard = <<>>
    /\ partial = 0
    /\ shard_states = [s \in Shards |-> "Connecting"]
    /\ retries = {}
    /\ last = NoCreate
    /\ pages = [g \in Guilds |-> {}]
    /\ deleted = [g \in Guilds |-> FALSE]
    /\ tries = [first |-> {}, done |-> NoTries]
    /\ tasks = [t \in Tasks |-> Idle]
    /\ store = <<>>
    /\ token = NoToken
    /\ frost = NoFrost

Init ==
    /\ Fresh
    /\ orders = NoOrders

\* ------------------------------------------------------------ events
\* Event::Ready
Ready(s, n) ==
    /\ missing_per_shard' = Put(missing_per_shard, s, n)
    /\ last' = NoCreate
    /\ UNCHANGED <<guilds, guild_channels, emoji, users, heap, filling,
                   unavailable_guilds, partial, shard_states, retries, pages,
                   deleted, aux>>

\* the other order: the new guild's entries come first, then the superseded
\* copy's go
IndexNukedLast(index, old, new) == (index \cup new) \ old

\* the global index after GuildCreate: the superseded copy's entries go, the
\* new guild's come
IndexAfterCreate(index, old, new) == (index \ old) \cup new

\* Event::GuildCreate; sent says whether the member-chunk request went out
GuildCreate(g, chans, ems, sent) ==
    LET nk == IF Cached(g)
              THEN NukeGuildCache([guild_channels |-> guild_channels, emoji |-> emoji,
                                   users |-> users, heap |-> heap], guilds[g])
              ELSE [guild_channels |-> guild_channels, emoji |-> emoji,
                    users |-> users, heap |-> heap]
        oldChans == IF Cached(g) THEN guilds[g].channels ELSE {}
        oldEmoji == IF Cached(g) THEN guilds[g].emoji ELSE {}
        dec == IF Cached(g) /\ ~guilds[g].complete THEN 1 ELSE 0
        inc == IF sent THEN 1 ELSE 0
        gs == IF sent THEN Put(guilds, g, GuildFrom(chans, ems)) ELSE guilds
        rep == /\ sent
               /\ Cached(g)
               /\ last.gid = g
               /\ guilds[g].channels = chans
               /\ guilds[g].emoji = ems
    IN  /\ Cached(g) => CanRelease(guilds[g].members)
        /\ partial - dec >= -MaxWrap
        /\ partial - dec + inc <= MaxPartial
        /\ guild_channels' = IndexAfterCreate(guild_channels, oldChans, chans)
        /\ emoji' = IndexAfterCreate(emoji, oldEmoji, ems)
        /\ unavailable_guilds' = RemoveFirst(unavailable_guilds, g)
        /\ guilds' = gs
        /\ users' = nk.users
        /\ heap' = Collect(nk.heap, nk.users, gs)
        /\ partial' = partial - dec + inc
        /\ last' = IF sent THEN [gid |-> g, repeat |-> rep] ELSE NoCreate
        /\ pages' = IF sent THEN [pages EXCEPT ![g] = {}] ELSE pages
        /\ deleted' = IF sent THEN [deleted EXCEPT ![g] = FALSE] ELSE deleted
        /\ UNCHANGED aux
        /\ UNCHANGED <<filling, missing_per_shard, shard_states, retries>>

\* Event::GuildDelete
GuildDelete(g, unavailable) ==
    IF Cached(g)
    THEN LET nk == NukeGuildCache([guild_channels |-> guild_channels, emoji |-> emoji,
                                   users |-> users, heap |-> heap], guilds[g])
             dec == IF ~guilds[g].complete THEN 1 ELSE 0
         IN  /\ CanRelease(guilds[g].members)
             /\ partial - dec >= -MaxWrap
             /\ unavailable => Len(unavailable_guilds) < MaxUnavailable
             /\ partial' = partial - dec
             /\ unavailable_guilds' = IF unavailable
                                      THEN Append(unavailable_guilds, g)
                                      ELSE unavailable_guilds
             /\ guild_channels' = nk.guild_channels
             /\ emoji' = nk.emoji
             /\ users' = nk.users
             /\ heap' = Collect(nk.heap, nk.users, guilds)
             /\ deleted' = [deleted EXCEPT ![g] = TRUE]
             /\ UNCHANGED aux
             /\ last' = NoCreate
             /\ UNCHANGED <<guilds, filling, missing_per_shard, shard_states,
                            retries, pages>>
    ELSE /\ last' = NoCreate
         /\ UNCHANGED <<guilds, guild_channels, emoji, users, heap, filling,
                        unavailable_guilds, missing_per_shard, partial,
                        shard_states, retries, pages, deleted, aux>>

\* Event::MemberAdd
MemberAdd(g, u, name) ==
    IF Cached(g)
    THEN LET cs == InsertMember([users |-> users, heap |-> heap,
                                 members |-> guilds[g].members], u, name)
             gs == [guilds EXCEPT ![g].members = cs.members]
         IN  /\ CanInsert(u)
             /\ guilds' = gs
             /\ users' = cs.users
             /\ heap' = Collect(cs.heap, cs.users, gs)
             /\ last' = NoCreate
             /\ UNCHANGED <<guild_channels, emoji, filling, unavailable_guilds,
                            missing_per_shard, partial, shard_states, retries,
                            pages, deleted, aux>>
    ELSE /\ last' = NoCreate
         /\ UNCHANGED <<guilds, guild_channels, emoji, users, heap, filling,
                        unavailable_guilds, missing_per_shard, partial,
                        shard_states, retries, pages, deleted, aux>>

\* Event::MemberRemove
MemberRemove(g, u) ==
    IF Cached(g) /\ u \in DOMAIN guilds[g].members
    THEN LET r == guilds[g].members[u]
             st == ReleaseUser([users |-> users, heap |-> heap], u, r)
             gs == [guilds EXCEPT ![g].members = Drop(@, u)]
         IN  /\ heap[r].mutual_servers > -MaxWrap
             /\ guilds' = gs
             /\ users' = st.users
             /\ heap' = Collect(st.heap, st.users, gs)
             /\ last' = NoCreate
             /\ UNCHANGED <<guild_channels, emoji, filling, unavailable_guilds,
                            missing_per_shard, partial, shard_states, retries,
                            pages, deleted, aux>>
    ELSE /\ last' = NoCreate
         /\ UNCHANGED <<guilds, guild_channels, emoji, users, heap, filling,
                        unavailable_guilds, missing_per_shard, partial,
                        shard_states, retries, pages, deleted, aux>>

\* the loop of Event::MemberChunk over chunk.members, on cs = [users, heap, members]
RECURSIVE InsertMembers(_, _, _)
InsertMembers(cs, todo, name) ==
    IF todo = {}
    THEN cs
    ELSE LET u == Min(todo)
         IN  InsertMembers(InsertMember(cs, u, name), todo \ {u}, name)

\* shard_states.iter().all(|state| state.value() == &ShardState::Ready)
AllShardsReady == \A s \in DOMAIN shard_states : shard_states[s] = "Ready"

\* the test that ends the initial filling, read after partial.dec()
FillingDone(p) == p = 0 /\ filling /\ AllShardsReady

\* the last index alone, whatever the nonce
IsLastIndex(index, count, nonce) == (count - 1) = index

\* the page that ends a dump: the last index, and no nonce on the chunk
IsFinalPage(index, count, nonce) == (count - 1) = index /\ ~nonce

\* Event::MemberChunk: page index of count with members M; nonce says the
\* chunk carries one (it answers a single-user request); activity says
\* whether ctx.set_shard_activity succeeds when it is called
MemberChunkBody(g, M, name, index, count, nonce, activity) ==
    IF Cached(g)
    THEN LET cs == InsertMembers([users |-> users, heap |-> heap,
                                  members |-> guilds[g].members], M, name)
             final == IsFinalPage(index, count, nonce)
             gs == [guilds EXCEPT ![g].members = cs.members,
                                  ![g].complete = IF final THEN TRUE ELSE @]
             s == ShardOf(g)
             known == s \in DOMAIN missing_per_shard
             shard_missing == missing_per_shard[s]
         IN  /\ \A u \in M : CanInsert(u)
             /\ guilds' = gs
             /\ users' = cs.users
             /\ heap' = Collect(cs.heap, cs.users, gs)
             /\ pages' = IF nonce THEN pages ELSE [pages EXCEPT ![g] = @ \cup {index}]
             /\ last' = NoCreate
             /\ IF ~final
                THEN UNCHANGED <<missing_per_shard, partial, filling>>
                ELSE IF ~known
                THEN \* .get(&shard_id).unwrap() on None aborts the call
                     UNCHANGED <<missing_per_shard, partial, filling>>
                ELSE /\ shard_missing > -MaxWrap
                     /\ missing_per_shard' = [missing_per_shard EXCEPT ![s] = @ - 1]
                     /\ IF shard_missing = 1 /\ ~activity
                        THEN \* set_shard_activity(..).await? returns the error
                             UNCHANGED <<partial, filling>>
                        ELSE /\ partial - 1 >= -MaxWrap
                             /\ partial' = partial - 1
                             /\ filling' = IF FillingDone(partial - 1) THEN FALSE ELSE filling
             /\ UNCHANGED <<guild_channels, emoji, unavailable_guilds, shard_states,
                            retries, deleted>>
    ELSE /\ last' = NoCreate
         /\ UNCHANGED <<guilds, guild_channels, emoji, users, heap, filling,
                        unavailable_guilds, missing_per_shard, partial,
                        shard_states, retries, pages, deleted>>

\* Event::MemberChunk, handled in one piece
MemberChunk(g, M, name, index, count, nonce, activity) ==
    /\ MemberChunkBody(g, M, name, index, count, nonce, activity)
    /\ UNCHANGED aux

\* Cache::member_update, the match on ctx.cache.get_user, on st = [users, heap]
UpdateUser(st, u, name, complete) ==
    IF u \in DOMAIN st.users
    THEN IF ~IsSameAs(st.heap[st.users[u]], name)
         THEN LET r == NewRef(st.heap)
              IN  [users |-> Put(st.users, u, r),
                   heap |-> Put(st.heap, r, FromUser(u, name))]
         ELSE st
    ELSE IF complete THEN GetOrInsertUser(st, u, name) ELSE st

\* CachedMember::update(event, cache): the member as updated, holding the
\* record the cache has for the user
UpdateMember(st, members, u, name) ==
    LET st2 == GetOrInsertUser(st, u, name)
    IN  [users |-> st2.users, heap |-> st2.heap,
         members |-> Put(members, u, st2.users[u])]

\* Cache::member_update past its early return, for a cached guild
MemberUpdateBody(g, u, name) ==
    LET st == UpdateUser([users |-> users, heap |-> heap], u, name, guilds[g].complete)
        cs == IF u \in DOMAIN guilds[g].members
              THEN UpdateMember(st, guilds[g].members, u, name)
              ELSE [users |-> st.users, heap |-> st.heap, members |-> guilds[g].members]
        gs == [guilds EXCEPT ![g].members = cs.members]
    IN  /\ guilds' = gs
        /\ users' = cs.users
        /\ heap' = Collect(cs.heap, cs.users, gs)

\* a first attempt that gives up whenever it may be retried
GivesUpOnRetry(missing, retry) == retry

\* Cache::member_update: member.is_none() && retry, the return of false
GivesUp(missing, retry) == missing /\ retry

\* the member is there for the Some(member) arm to replace it
Replaces(g, u) == IF Cached(g) /\ u \in DOMAIN guilds[g].members THEN 1 ELSE 0

\* Event::MemberUpdate: the first attempt (retry = true); when it returns
\* false the delayed second attempt is spawned
MemberUpdate(g, u, name) ==
    /\ last' = NoCreate
    /\ IF ~Cached(g)
       THEN /\ UNCHANGED <<guilds, users, heap, retries>>
            /\ tries' = [tries EXCEPT !.done = [attempts |-> 1, applied |-> 0,
                                                missing |-> FALSE]]
       ELSE IF GivesUp(u \notin DOMAIN guilds[g].members, TRUE)
       THEN /\ <<g, u, name>> \in retries \/ Cardinality(retries) < MaxRetries
            /\ retries' = retries \cup {<<g, u, name>>}
            /\ tries' = [tries EXCEPT !.first =
                             IF u \notin DOMAIN guilds[g].members
                             THEN @ \cup {<<g, u, name>>}
                             ELSE @ \ {<<g, u, name>>}]
            /\ UNCHANGED <<guilds, users, heap>>
       ELSE /\ MemberUpdateBody(g, u, name)
            /\ UNCHANGED retries
            /\ tries' = [tries EXCEPT !.done = [attempts |-> 1,
                                                applied |-> Replaces(g, u),
                                                missing |-> FALSE]]
    /\ UNCHANGED <<guild_channels, emoji, filling, unavailable_guilds,
                   missing_per_shard, partial, shard_states, pages, deleted, side>>

\* the spawned task: member_update with retry = false, after the delay
MemberUpdateRetry(e) ==
    /\ e \in retries
    /\ retries' = retries \ {e}
    /\ last' = NoCreate
    /\ IF Cached(e[1]) /\ ~GivesUp(e[2] \notin DOMAIN guilds[e[1]].members, FALSE)
       THEN MemberUpdateBody(e[1], e[2], e[3])
       ELSE UNCHANGED <<guilds, users, heap>>
    /\ tries' = [first |-> tries.first \ {e},
                 done |-> [attempts |-> 2, applied |-> Replaces(e[1], e[2]),
                           missing |-> e \in tries.first]]
    /\ UNCHANGED <<guild_channels, emoji, filling, unavailable_guilds,
                   missing_per_shard, partial, shard_states, pages, deleted, side>>

\* Event::ChannelCreate and Event::ChannelUpdate for a guild channel: the same
\* two inserts
ChannelUpsert(g, c) ==
    /\ last' = NoCreate
    /\ IF Cached(g)
       THEN /\ guilds' = [guilds EXCEPT ![g].channels = @ \cup {c}]
            /\ guild_channels' = guild_channels \cup {c}
       ELSE UNCHANGED <<guilds, guild_channels>>
    /\ UNCHANGED <<emoji, users, heap, filling, unavailable_guilds,
                   missing_per_shard, partial, shard_states, retries, pages,
                   deleted, aux>>

ChannelCreate(g, c) == ChannelUpsert(g, c)

ChannelUpdate(g, c) == ChannelUpsert(g, c)

\* Event::ChannelDelete for a guild channel
ChannelDelete(g, c) ==
    /\ last' = NoCreate
    /\ IF Cached(g)
       THEN guilds' = [guilds EXCEPT ![g].channels = @ \ {c}]
       ELSE UNCHANGED guilds
    /\ UNCHANGED <<guild_channels, emoji, users, heap, filling, unavailable_guilds,
                   missing_per_shard, partial, shard_states, retries, pages,
                   deleted, aux>>

\* the gateway moving a shard in or out of ShardState::Ready
ShardStateChange(s, v) ==
    /\ shard_states[s] # v
    /\ shard_states' = [shard_states EXCEPT ![s] = v]
    /\ UNCHANGED <<guilds, guild_channels, emoji, users, heap, filling,
                   unavailable_guilds, missing_per_shard, partial, retries,
                   last, pages, deleted, aux>>

\* ------------------------------------------------------------ calls in steps
\* the call of update for a MemberRemove or a GuildDelete as it starts; about
\* is the user whose memberships the events that started together remove
Begin(kind, g, u, about) ==
    [pc |-> "take", kind |-> kind, g |-> g, u |-> u, ref |-> 0, servers |-> 0,
     zero |-> {}, evicted |-> {}, todo |-> {}, about |-> about]

\* where a call goes after a member's turn
AfterMember(task, todo) ==
    IF task.kind = "remove"
    THEN [task EXCEPT !.pc = "done"]
    ELSE IF todo = {}
    THEN [task EXCEPT !.pc = "emoji", !.todo = {}]
    ELSE [task EXCEPT !.pc = "sub", !.todo = todo, !.u = Min(todo),
                      !.ref = guilds[task.g].members[Min(todo)]]

\* everything a step of a call leaves alone besides the maps it names
TaskFrame ==
    /\ last' = NoCreate
    /\ UNCHANGED <<filling, unavailable_guilds, missing_per_shard, shard_states,
                   retries, pages, deleted, tries, store, token, frost, orders>>

\* two events that remove the last two memberships of user u, in guilds g1
\* and g2, arrive together and are handled by concurrent calls of update
RemoveLastTwo(u, g1, g2, k1, k2) ==
    /\ \A t \in Tasks : tasks[t] = Idle
    /\ g1 # g2
    /\ GuildsWith(u) = {g1, g2}
    /\ u \in DOMAIN users
    /\ guilds[g1].members[u] = users[u] /\ guilds[g2].members[u] = users[u]
    /\ heap[users[u]].mutual_servers = 2
    /\ tasks' = [tasks EXCEPT ![1] = Begin(k1, g1, u, u), ![2] = Begin(k2, g2, u, u)]
    /\ TaskFrame
    /\ UNCHANGED <<guilds, guild_channels, emoji, users, heap, partial>>

\* MemberRemove: get_guild and guild.members.remove_take;
\* GuildDelete: get_guild, the partial gauge, and nuke_guild_cache's loop
\* over the channels
TaskTake(t) ==
    LET task == tasks[t]
        g == task.g
    IN  /\ task.pc = "take"
        /\ TaskFrame
        /\ UNCHANGED <<users, heap, emoji>>
        /\ IF ~Cached(g)
           THEN /\ tasks' = [tasks EXCEPT ![t].pc = "done"]
                /\ UNCHANGED <<guilds, guild_channels, partial>>
           ELSE IF task.kind = "remove"
           THEN /\ UNCHANGED <<guild_channels, partial>>
                /\ IF task.u \in DOMAIN guilds[g].members
                   THEN /\ guilds' = [guilds EXCEPT ![g].members = Drop(@, task.u)]
                        /\ tasks' = [tasks EXCEPT ![t].pc = "sub",
                                                  ![t].ref = guilds[g].members[task.u]]
                   ELSE /\ tasks' = [tasks EXCEPT ![t].pc = "done"]
                        /\ UNCHANGED guilds
           ELSE /\ partial - (IF guilds[g].complete THEN 0 ELSE 1) >= -MaxWrap
                /\ partial' = partial - (IF guilds[g].complete THEN 0 ELSE 1)
                /\ guild_channels' = guild_channels \ guilds[g].channels
                /\ tasks' = [tasks EXCEPT ![t] = AfterMember(task, DOMAIN guilds[g].members)]
                /\ UNCHANGED guilds

\* member.user.mutual_servers.fetch_sub(1): one atomic read and write
TaskFetchSub(t) ==
    LET task == tasks[t]
        servers == heap[task.ref].mutual_servers
        seen == [task EXCEPT !.servers = servers,
                             !.zero = IF ReachedZero(servers) THEN @ \cup {task.u} ELSE @]
    IN  /\ task.pc = "sub"
        /\ servers > -MaxWrap
        /\ TaskFrame
        /\ heap' = [heap EXCEPT ![task.ref].mutual_servers = @ - 1]
        /\ tasks' = [tasks EXCEPT ![t] =
                         IF ReachedZero(servers)
                         THEN [seen EXCEPT !.pc = "evict"]
                         ELSE AfterMember(seen, task.todo \ {task.u})]
        /\ UNCHANGED <<guilds, guild_channels, emoji, users, partial>>

\* self.users.remove(&member.user.id) and user_counts.unique.dec()
TaskEvict(t) ==
    LET task == tasks[t]
    IN  /\ task.pc = "evict"
        /\ TaskFrame
        /\ users' = Drop(users, task.u)
        /\ tasks' = [tasks EXCEPT ![t] =
                         AfterMember([task EXCEPT !.evicted = @ \cup {task.u}],
                                     task.todo \ {task.u})]
        /\ UNCHANGED <<guilds, guild_channels, emoji, heap, partial>>

\* nuke_guild_cache's loop over the emoji, which ends GuildDelete
TaskEmoji(t) ==
    LET task == tasks[t]
    IN  /\ task.pc = "emoji"
        /\ TaskFrame
        /\ emoji' = emoji \ guilds[task.g].emoji
        /\ tasks' = [tasks EXCEPT ![t].pc = "done"]
        /\ UNCHANGED <<guilds, guild_channels, users, heap, partial>>

\* the call returns and drops what it held
TaskEnd(t) ==
    /\ tasks[t].pc = "done"
    /\ TaskFrame
    /\ tasks' = [tasks EXCEPT ![t] = Idle]
    /\ heap' = Restrict(heap, (DOMAIN heap) \cap
                              ({users[u] : u \in DOMAIN users}
                                  \cup UNION {{guilds[g].members[u] : u \in DOMAIN guilds[g].members} :
                                               g \in DOMAIN guilds}
                                  \cup Held([x \in Tasks \ {t} |-> tasks[x]])))
    /\ UNCHANGED <<guilds, guild_channels, emoji, users, partial>>

\* an event that removes the last membership of user u, in guild g1, and an
\* event that adds u to guild g2 arrive together and are handled by
\* concurrent calls of update
RemoveAndAdd(u, g1, g2, k1) ==
    /\ \A t \in Tasks : tasks[t] = Idle
    /\ g1 # g2
    /\ Cached(g2)
    /\ GuildsWith(u) = {g1}
    /\ u \in DOMAIN users
    /\ guilds[g1].members[u] = users[u]
    /\ heap[users[u]].mutual_servers = 1
    /\ tasks' = [tasks EXCEPT ![1] = Begin(k1, g1, u, u),
                              ![2] = [Begin("add", g2, u, u) EXCEPT !.pc = "find"]]
    /\ TaskFrame
    /\ UNCHANGED <<guilds, guild_channels, emoji, users, heap, partial>>

\* MemberAdd / MemberChunk for one member: get_guild, then get_or_insert_user
\* and CachedMember::from_member, which leave the call holding the record
\* the index has for the user
TaskFind(t) ==
    LET task == tasks[t]
        st == GetOrInsertUser([users |-> users, heap |-> heap], task.u, "a")
    IN  /\ task.pc = "find"
        /\ TaskFrame
        /\ UNCHANGED <<guilds, guild_channels, emoji, partial>>
        /\ IF ~Cached(task.g)
           THEN /\ tasks' = [tasks EXCEPT ![t].pc = "done"]
                /\ UNCHANGED <<users, heap>>
           ELSE /\ users' = st.users
                /\ heap' = st.heap
                /\ tasks' = [tasks EXCEPT ![t].pc = "add", ![t].ref = st.users[task.u]]

\* member.user.mutual_servers.fetch_add(1)
TaskFetchAdd(t) ==
    LET task == tasks[t]
    IN  /\ task.pc = "add"
        /\ heap[task.ref].mutual_servers < MaxCount
        /\ TaskFrame
        /\ heap' = [heap EXCEPT ![task.ref].mutual_servers = @ + 1]
        /\ tasks' = [tasks EXCEPT ![t].pc = "insert"]
        /\ UNCHANGED <<guilds, guild_channels, emoji, users, partial>>

\* guild.members.insert(user_id, Arc::new(member)), on the guild get_guild
\* gave
TaskInsert(t) ==
    LET task == tasks[t]
    IN  /\ task.pc = "insert"
        /\ TaskFrame
        /\ guilds' = IF Cached(task.g)
                     THEN [guilds EXCEPT ![task.g].members = Put(@, task.u, task.ref)]
                     ELSE guilds
        /\ tasks' = [tasks EXCEPT ![t].pc = "done"]
        /\ UNCHANGED <<guild_channels, emoji, users, heap, partial>>

\* the call of update for a GuildCreate that has sent its member-chunk
\* request: pending are the pages of the answer not delivered yet, dropped
\* the pages that were processed while the guild was not in the guild map
BeginCreate(g, chans, ems, sent) ==
    [pc |-> IF sent THEN "sent" ELSE "done", kind |-> "create", g |-> g,
     chans |-> chans, ems |-> ems, pending |-> IF sent THEN Pages ELSE {},
     dropped |-> {}]

\* GuildCreate up to ctx.cluster.command(shard_id, &data).await: the cached
\* guild is nuked, the new guild's channels and emoji are indexed, the guild
\* is taken off the unavailable list, the request is sent; sent says whether
\* the transport accepted it
CreateSend(g, chans, ems, sent) ==
    LET nk == IF Cached(g)
              THEN NukeGuildCache([guild_channels |-> guild_channels, emoji |-> emoji,
                                   users |-> users, heap |-> heap], guilds[g])
              ELSE [guild_channels |-> guild_channels, emoji |-> emoji,
                    users |-> users, heap |-> heap]
        oldChans == IF Cached(g) THEN guilds[g].channels ELSE {}
        oldEmoji == IF Cached(g) THEN guilds[g].emoji ELSE {}
        dec == IF Cached(g) /\ ~guilds[g].complete THEN 1 ELSE 0
    IN  /\ \A t \in Tasks : tasks[t] = Idle
        /\ Cached(g) => CanRelease(guilds[g].members)
        /\ partial - dec >= -MaxWrap
        /\ guild_channels' = IndexAfterCreate(guild_channels, oldChans, chans)
        /\ emoji' = IndexAfterCreate(emoji, oldEmoji, ems)
        /\ unavailable_guilds' = RemoveFirst(unavailable_guilds, g)
        /\ users' = nk.users
        /\ heap' = Collect(nk.heap, nk.users, guilds)
        /\ partial' = partial - dec
        /\ tasks' = [tasks EXCEPT ![1] = BeginCreate(g, chans, ems, sent)]
        /\ last' = NoCreate
        /\ UNCHANGED <<guilds, filling, missing_per_shard, shard_states, retries,
                       pages, deleted, tries, store, token, frost, orders>>

\* GuildCreate after the request: self.guilds.insert(e.id, Arc::new(guild))
\* and guild_counts.partial.inc()
CreateInsert(t) ==
    LET task == tasks[t]
        gs == Put(guilds, task.g, GuildFrom(task.chans, task.ems))
    IN  /\ task.pc = "sent"
        /\ partial + 1 <= MaxPartial
        /\ guilds' = gs
        /\ heap' = Collect(heap, users, gs)
        /\ partial' = partial + 1
        /\ tasks' = [tasks EXCEPT ![t].pc = "done"]
        /\ last' = NoCreate
        /\ pages' = [pages EXCEPT ![task.g] = {}]
        /\ deleted' = [deleted EXCEPT ![task.g] = FALSE]
        /\ UNCHANGED <<guild_channels, emoji, users, filling, unavailable_guilds,
                       missing_per_shard, shard_states, retries, tries, store,
                       token, frost, orders>>

\* a page of the answer to the request of call t arrives and is processed by
\* another call of update
ChunkAnswer(t, M, index) ==
    LET task == tasks[t]
    IN  /\ task.pc \in {"sent", "done"}
        /\ task.kind = "create"
        /\ index \in task.pending
        /\ MemberChunkBody(task.g, M, "a", index, NumPages, FALSE, TRUE)
        /\ tasks' = [tasks EXCEPT ![t].pending = @ \ {index},
                                  ![t].dropped = IF Cached(task.g) THEN @
                                                 ELSE @ \cup {index}]
        /\ UNCHANGED <<tries, store, token, frost, orders>>

\* ------------------------------------------------------------ cold resume

\* The loop of prepare_cold_resume over the guilds: sizes[i] is the entity
\* count of the i-th guild the iteration yields.  The guild is pushed on the
\* open list first, and the list is closed once the count has passed the
\* ceiling; what is left open after the loop is the last work order.
RECURSIVE Partition(_, _, _, _, _)
Partition(sizes, i, count, list, work_orders) ==
    IF i > Len(sizes)
    THEN IF Len(list) > 0 THEN Append(work_orders, list) ELSE work_orders
    ELSE LET c == count + sizes[i]
             l == Append(list, i)
         IN  IF c > Ceiling
             THEN Partition(sizes, i + 1, 0, <<>>, Append(work_orders, l))
             ELSE Partition(sizes, i + 1, c, l, work_orders)

WorkOrders(sizes) == Partition(sizes, 1, 0, <<>>, <<>>)

\* entity counts a guild of the partition can have
SizeValues == {0, 1, 50000, 75000, 100000, 100001, 150000}

SizeLists == UNION {[1..n -> SizeValues] : n \in 1..MaxSnapGuilds}

\* the partition of one list of guild sizes
CollectWorkOrders ==
    /\ ~orders.run
    /\ orders' = [orders EXCEPT !.made = WorkOrders(orders.sizes), !.run = TRUE]
    /\ UNCHANGED <<guilds, guild_channels, emoji, users, heap, filling,
                   unavailable_guilds, missing_per_shard, partial, shard_states,
                   retries, last, pages, deleted, tries, tasks, store, token, frost>>

\* The keys of the external store: cb_cluster_<id>_guild_chunk_<i> and
\* cb_cluster_<id>_user_chunk_<i>, of one cluster.
GuildKey(i) == <<"guild", i>>

UserKey(i) == <<"user", i>>

Keys == {GuildKey(i) : i \in 0..(MaxChunks - 1)} \cup {UserKey(i) : i \in 0..(MaxChunks - 1)}

\* members.len() + channels.len() + emoji.len() + roles.len(); roles are not
\* part of the state
GuildSize(guild) ==
    Cardinality(DOMAIN guild.members) + Cardinality(guild.channels)
        + Cardinality(guild.emoji)

\* ColdStorageGuild::from: the members are kept by user id, without the
\* shared record
ColdStorageGuildFrom(g, guild) ==
    [id |-> g, channels |-> guild.channels, emoji |-> guild.emoji,
     members |-> DOMAIN guild.members, complete |-> guild.complete]

\* the copy _prepare_cold_resume_user serializes: mutual_servers is 0
FrozenUser(rec) == [id |-> rec.id, name |-> rec.name, mutual_servers |-> 0]

\* the guilds of work order wo, in its order
GuildChunk(order, wo) ==
    [k \in DOMAIN wo |-> ColdStorageGuildFrom(order[wo[k]], guilds[order[wo[k]]])]

\* user_work_orders[i]: every user_chunks-th user of the iteration
UserChunk(uorder, i, user_chunks) ==
    LET mine == {k \in DOMAIN uorder : (k - 1) % user_chunks = i}
    IN  [k \in 1..Cardinality(mine) |->
            FrozenUser(heap[users[uorder[i + 1 + (k - 1) * user_chunks]]])]

\* set_and_expire_seconds for every key of writes that the store accepts
RECURSIVE SetAll(_, _, _)
SetAll(st, writes, todo) ==
    IF todo = {} THEN st
    ELSE LET key == CHOOSE k \in todo : TRUE
         IN  SetAll(Put(st, key, writes[key]), writes, todo \ {key})

\* Cache::prepare_cold_resume, with the guilds iterated in order, the users in
\* uorder, and the writes to the keys of fails refused by the store.  The
\* results of the tasks are dropped by join_all, and the user map is cleared
\* whatever they were.  The emoji index is not cleared.
PrepareColdResume(order, uorder, fails) ==
    LET sizes == [i \in DOMAIN order |-> GuildSize(guilds[order[i]])]
        work_orders == WorkOrders(sizes)
        guild_chunks == Len(work_orders)
        user_chunks == (Cardinality(DOMAIN users) \div UsersPerChunk) + 1
        writes ==
            [key \in {GuildKey(i - 1) : i \in DOMAIN work_orders}
                        \cup {UserKey(i) : i \in 0..(user_chunks - 1)} |->
                IF key[1] = "guild"
                THEN [kind |-> "guilds", items |-> GuildChunk(order, work_orders[key[2] + 1])]
                ELSE [kind |-> "users", items |-> UserChunk(uorder, key[2], user_chunks)]]
    IN  /\ \A t \in Tasks : tasks[t] = Idle
        /\ frost.phase \notin {"users", "guilds"}
        /\ order \in Perms(DOMAIN guilds)
        /\ uorder \in Perms(DOMAIN users)
        /\ fails \subseteq DOMAIN writes
        /\ guild_chunks <= MaxChunks /\ user_chunks <= MaxChunks
        /\ store' = SetAll(store, writes, (DOMAIN writes) \ fails)
        /\ guild_channels' = {}
        /\ guilds' = <<>>
        /\ users' = <<>>
        /\ heap' = <<>>
        /\ token' = [guilds |-> guild_chunks, users |-> user_chunks, taken |-> TRUE,
                     intact |-> fails = {},
                     snap |-> [guilds |-> DOMAIN guilds,
                               members |-> [g \in DOMAIN guilds |-> DOMAIN guilds[g].members],
                               users |-> DOMAIN users]]
        /\ last' = NoCreate
        /\ UNCHANGED <<emoji, filling, unavailable_guilds, missing_per_shard, partial,
                       shard_states, retries, pages, deleted, tries, tasks, frost, orders>>

\* a join that is over with tasks still running
JoinedAny(todo) == TRUE

\* future::join_all(..).await: every task handed to it is over
Joined(todo) == todo = {}

\* what a step of prepare_cold_resume leaves alone besides the maps, the
\* store and the token
SnapFrame ==
    /\ last' = NoCreate
    /\ UNCHANGED <<emoji, filling, unavailable_guilds, missing_per_shard, partial,
                   shard_states, retries, pages, deleted, tries, frost, orders>>

\* prepare_cold_resume up to the first join_all: the channel index is
\* cleared and the guilds, iterated in order, are put into work orders;
\* the tasks of the work orders are built
SnapCollectGuilds(t, order) ==
    LET sizes == [i \in DOMAIN order |-> GuildSize(guilds[order[i]])]
        work_orders == WorkOrders(sizes)
    IN  /\ tasks[t] = Idle
        /\ order \in Perms(DOMAIN guilds)
        /\ Len(work_orders) <= MaxChunks
        /\ guild_channels' = {}
        /\ tasks' = [tasks EXCEPT ![t] =
                         [pc |-> "guilds", kind |-> "prepare",
                          work_orders |-> [i \in DOMAIN work_orders |->
                                              [k \in DOMAIN work_orders[i] |->
                                                  order[work_orders[i][k]]]],
                          todo |-> {i - 1 : i \in DOMAIN work_orders},
                          guild_chunks |-> Len(work_orders), user_chunks |-> 0]]
        /\ SnapFrame
        /\ UNCHANGED <<guilds, users, heap, store, token>>

\* every key of the list is in the map: remove_take(&key).unwrap() succeeds
AllThere(list, map) == \A k \in DOMAIN list : list[k] \in DOMAIN map

\* _prepare_cold_resume_guild(todo, i), after it got its connection: the
\* guilds are taken out of the map and written as one chunk; accepted says
\* whether the store takes the write
SnapGuildTask(t, i, accepted) ==
    LET task == tasks[t]
        todo == task.work_orders[i + 1]
        taken == {todo[k] : k \in DOMAIN todo}
        gs == Restrict(guilds, (DOMAIN guilds) \ taken)
        chunk == [kind |-> "guilds",
                  items |-> [k \in DOMAIN todo |-> ColdStorageGuildFrom(todo[k], guilds[todo[k]])]]
    IN  /\ task.pc = "guilds"
        /\ i \in task.todo
        /\ SnapFrame
        /\ UNCHANGED <<guild_channels, users, token>>
        /\ IF AllThere(todo, guilds)
           THEN /\ guilds' = gs
                /\ heap' = Collect(heap, users, gs)
                /\ store' = IF accepted THEN Put(store, GuildKey(i), chunk) ELSE store
                /\ tasks' = [tasks EXCEPT ![t].todo = @ \ {i}]
           ELSE /\ tasks' = [tasks EXCEPT ![t].pc = "aborted"]
                /\ UNCHANGED <<guilds, heap, store>>

\* prepare_cold_resume after the first join_all: the users, iterated in
\* uorder, are dealt out to user_chunks work orders, whose tasks are built
SnapCollectUsers(t, uorder) ==
    LET task == tasks[t]
        user_chunks == (Cardinality(DOMAIN users) \div UsersPerChunk) + 1
    IN  /\ task.pc = "guilds"
        /\ Joined(task.todo)
        /\ uorder \in Perms(DOMAIN users)
        /\ user_chunks <= MaxChunks
        /\ tasks' = [tasks EXCEPT ![t].pc = "users",
                                  ![t].user_chunks = user_chunks,
                                  ![t].work_orders =
                                      [i \in 1..user_chunks |->
                                          LET mine == {k \in DOMAIN uorder :
                                                          (k - 1) % user_chunks = i - 1}
                                          IN  [k \in 1..Cardinality(mine) |->
                                                  uorder[i + (k - 1) * user_chunks]]],
                                  ![t].todo = 0..(user_chunks - 1)]
        /\ SnapFrame
        /\ UNCHANGED <<guilds, guild_channels, users, heap, store, token>>

\* _prepare_cold_resume_user(todo, i), after it got its connection: the users
\* are taken out of the index and a copy of each is written to the chunk
SnapUserTask(t, i, accepted) ==
    LET task == tasks[t]
        todo == task.work_orders[i + 1]
        taken == {todo[k] : k \in DOMAIN todo}
        us == Restrict(users, (DOMAIN users) \ taken)
        chunk == [kind |-> "users",
                  items |-> [k \in DOMAIN todo |-> FrozenUser(heap[users[todo[k]]])]]
    IN  /\ task.pc = "users"
        /\ i \in task.todo
        /\ SnapFrame
        /\ UNCHANGED <<guilds, guild_channels, token>>
        /\ IF AllThere(todo, users)
           THEN /\ users' = us
                /\ heap' = Collect(heap, us, guilds)
                /\ store' = IF accepted THEN Put(store, UserKey(i), chunk) ELSE store
                /\ tasks' = [tasks EXCEPT ![t].todo = @ \ {i}]
           ELSE /\ tasks' = [tasks EXCEPT ![t].pc = "aborted"]
                /\ UNCHANGED <<users, heap, store>>

\* prepare_cold_resume after the second join_all: self.users.clear() and the
\* pair is returned
SnapFinish(t) ==
    LET task == tasks[t]
    IN  /\ task.pc = "users"
        /\ Joined(task.todo)
        /\ users' = <<>>
        /\ heap' = Collect(heap, <<>>, guilds)
        /\ token' = [NoToken EXCEPT !.guilds = task.guild_chunks,
                                    !.users = task.user_chunks,
                                    !.taken = TRUE]
        /\ tasks' = [tasks EXCEPT ![t].pc = "done"]
        /\ SnapFrame
        /\ UNCHANGED <<guilds, guild_channels, store>>

\* The process ends and the next one starts: Cache::new.  The store and the
\* resume token are what crosses over.
Restart ==
    /\ guilds' = <<>>
    /\ guild_channels' = {}
    /\ emoji' = {}
    /\ users' = <<>>
    /\ heap' = <<>>
    /\ filling' = TRUE
    /\ unavailable_guilds' = <<>>
    /\ missing_per_shard' = <<>>
    /\ partial' = 0
    /\ shard_states' = [s \in Shards |-> "Connecting"]
    /\ retries' = {}
    /\ last' = NoCreate
    /\ pages' = [g \in Guilds |-> {}]
    /\ deleted' = [g \in Guilds |-> FALSE]
    /\ tries' = [first |-> {}, done |-> NoTries]
    /\ tasks' = [t \in Tasks |-> Idle]
    /\ frost' = NoFrost
    /\ UNCHANGED <<store, token, orders>>

\* what the events and the cache calls leave alone in a step of the store
StoreFrame ==
    /\ last' = NoCreate
    /\ UNCHANGED <<guilds, guild_channels, emoji, users, heap, filling,
                   unavailable_guilds, missing_per_shard, partial, shard_states,
                   retries, pages, deleted, tries, tasks, frost, orders>>

\* the 180 seconds of a key run out
Expire(key) ==
    /\ key \in DOMAIN store
    /\ store' = Drop(store, key)
    /\ token' = [token EXCEPT !.intact = FALSE]
    /\ StoreFrame

\* contents that cannot be decoded
Garbage == {"notutf8", "notjson"}

\* a key's contents are overwritten with bytes that are no UTF-8 text, or
\* with text that is no JSON of the chunk's type
Corrupt(key, kind) ==
    /\ key \in DOMAIN store
    /\ kind \in Garbage
    /\ store[key].kind \notin Garbage
    /\ store' = Put(store, key, [kind |-> kind, items |-> <<>>])
    /\ token' = [token EXCEPT !.intact = FALSE]
    /\ StoreFrame

\* what the store can do to one defroster
StoreErrors == {"none", "get", "del"}

\* How a defroster's read of key ends.  connection.get(..).await? returns the
\* store's error; .unwrap() on the Option panics when the key is not there;
\* String::from_utf8(..).unwrap() panics on bytes that are no text;
\* serde_json::from_str(..)? returns the decoding error; connection.del(..)
\* .await? returns the store's error, before anything is inserted.
Fetch(st, key, err) ==
    IF err = "get" THEN "error"
    ELSE IF key \notin DOMAIN st THEN "panic"
    ELSE IF st[key].kind = "notutf8" THEN "panic"
    ELSE IF st[key].kind = "notjson" THEN "error"
    ELSE IF err = "del" THEN "error"
    ELSE "ok"

\* a store in which a read leaves the key
KeptAfterFetch(st, key, err) == st

\* the store after the read: the key is deleted once its contents were decoded
\* and the store accepts the deletion
AfterFetch(st, key, err) == IF Fetch(st, key, err) = "ok" THEN Drop(st, key) ELSE st

\* restore_cold_resume(guild_chunks, user_chunks) is called and has built its
\* user defrosters.  The pair is whatever the caller kept.
RestoreColdResume(guild_chunks, user_chunks) ==
    /\ frost.phase = "none"
    /\ \A t \in Tasks : tasks[t] = Idle
    /\ frost' = [NoFrost EXCEPT !.phase = "users",
                                !.guild_chunks = guild_chunks,
                                !.user_chunks = user_chunks,
                                !.todo = 0..(user_chunks - 1),
                                !.trip = token.taken /\ guild_chunks = token.guilds
                                            /\ user_chunks = token.users]
    /\ last' = NoCreate
    /\ UNCHANGED <<guilds, guild_channels, emoji, users, heap, filling,
                   unavailable_guilds, missing_per_shard, partial, shard_states,
                   retries, pages, deleted, tries, tasks, store, token, orders>>

\* self.users.insert(user.id, Arc::new(user)) for the users of a chunk
RECURSIVE InsertUsers(_, _, _)
InsertUsers(st, items, k) ==
    IF k > Len(items) THEN st
    ELSE LET r == NewRef(st.heap)
         IN  InsertUsers([users |-> Put(st.users, items[k].id, r),
                          heap |-> Put(st.heap, r, items[k])], items, k + 1)

\* a defroster of either kind is over
Defrosted(kind, i, outcome) ==
    [frost EXCEPT !.todo = @ \ {i},
                  !.failed = IF outcome = "error" THEN @ \cup {i} ELSE @,
                  !.restored = IF outcome = "ok" THEN @ \cup {<<kind, i>>} ELSE @,
                  !.bad = IF outcome = "ok" THEN @ ELSE @ \cup {<<kind, i>>},
                  !.phase = IF outcome = "panic" THEN "aborted" ELSE @]

\* Cache::defrost_users(i)
DefrostUsers(i, err) ==
    LET key == UserKey(i)
        outcome == Fetch(store, key, err)
        st == IF outcome = "ok"
              THEN InsertUsers([users |-> users, heap |-> heap], store[key].items, 1)
              ELSE [users |-> users, heap |-> heap]
    IN  /\ frost.phase = "users"
        /\ i \in frost.todo
        /\ err \in StoreErrors
        /\ store' = AfterFetch(store, key, err)
        /\ users' = st.users
        /\ heap' = Collect(st.heap, st.users, guilds)
        /\ frost' = Defrosted("user", i, outcome)
        /\ last' = NoCreate
        /\ UNCHANGED <<guilds, guild_channels, emoji, filling, unavailable_guilds,
                       missing_per_shard, partial, shard_states, retries, pages,
                       deleted, tries, tasks, token, orders>>

\* a test that finds no error among the results
NoErr(failed) == FALSE

\* for result in join_all(..).await { if let Err(why) = result { return Err
AnyErr(failed) == failed # {}

\* every user defroster is over: the first error is returned with the phase,
\* or the guild defrosters are built
RestoreUsersJoined ==
    /\ frost.phase = "users"
    /\ Joined(frost.todo)
    /\ frost' = IF AnyErr(frost.failed)
                THEN [frost EXCEPT !.phase = "err", !.tag = "users"]
                ELSE [frost EXCEPT !.phase = "guilds", !.failed = {},
                                   !.todo = 0..(frost.guild_chunks - 1)]
    /\ last' = NoCreate
    /\ UNCHANGED <<guilds, guild_channels, emoji, users, heap, filling,
                   unavailable_guilds, missing_per_shard, partial, shard_states,
                   retries, pages, deleted, tries, tasks, store, token, orders>>

\* CachedGuild::defrost(cache, cold_guild) on st = [users, heap]: every member
\* is built on the record the user index holds, whose counter is raised; a
\* member whose user is not in the index has no record to be built on
CanDefrost(us, cold) == cold.members \subseteq DOMAIN us

RECURSIVE DefrostMembers(_, _, _)
DefrostMembers(cs, us, todo) ==
    IF todo = {} THEN cs
    ELSE LET u == Min(todo)
             r == us[u]
         IN  DefrostMembers([heap |-> [cs.heap EXCEPT ![r].mutual_servers = @ + 1],
                             members |-> Put(cs.members, u, r)], us, todo \ {u})

\* the loop of defrost_guilds over the guilds of a chunk, on
\* ds = [guilds, guild_channels, emoji, heap, panic]; it ends at the first
\* guild that cannot be built
RECURSIVE DefrostGuildList(_, _, _, _)
DefrostGuildList(ds, us, items, k) ==
    IF k > Len(items) THEN ds
    ELSE IF ~CanDefrost(us, items[k]) THEN [ds EXCEPT !.panic = TRUE]
    ELSE LET cold == items[k]
             cs == DefrostMembers([heap |-> ds.heap, members |-> <<>>], us, cold.members)
             guild == [channels |-> cold.channels, emoji |-> cold.emoji,
                       members |-> cs.members, complete |-> cold.complete]
         IN  DefrostGuildList([guilds |-> Put(ds.guilds, cold.id, guild),
                               guild_channels |-> ds.guild_channels \cup cold.channels,
                               emoji |-> ds.emoji \cup cold.emoji,
                               heap |-> cs.heap,
                               panic |-> FALSE], us, items, k + 1)

\* Cache::defrost_guilds(i)
DefrostGuilds(i, err) ==
    LET key == GuildKey(i)
        outcome == Fetch(store, key, err)
        ds0 == [guilds |-> guilds, guild_channels |-> guild_channels, emoji |-> emoji,
                heap |-> heap, panic |-> FALSE]
        ds == IF outcome = "ok" THEN DefrostGuildList(ds0, users, store[key].items, 1)
              ELSE ds0
    IN  /\ frost.phase = "guilds"
        /\ i \in frost.todo
        /\ err \in StoreErrors
        /\ \A r \in DOMAIN ds.heap : ds.heap[r].mutual_servers <= MaxCount
        /\ store' = AfterFetch(store, key, err)
        /\ guilds' = ds.guilds
        /\ guild_channels' = ds.guild_channels
        /\ emoji' = ds.emoji
        /\ heap' = Collect(ds.heap, users, ds.guilds)
        /\ frost' = IF ds.panic
                    THEN [frost EXCEPT !.todo = @ \ {i}, !.phase = "aborted"]
                    ELSE Defrosted("guild", i, outcome)
        /\ last' = NoCreate
        /\ UNCHANGED <<users, filling, unavailable_guilds, missing_per_shard, partial,
                       shard_states, retries, pages, deleted, tries, tasks, token,
                       orders>>

\* every guild defroster is over: the first error is returned with the phase,
\* or filling is stored false and Ok(()) returned
RestoreGuildsJoined ==
    /\ frost.phase = "guilds"
    /\ Joined(frost.todo)
    /\ IF AnyErr(frost.failed)
       THEN /\ frost' = [frost EXCEPT !.phase = "err", !.tag = "guilds"]
            /\ UNCHANGED filling
       ELSE /\ frost' = [frost EXCEPT !.phase = "ok"]
            /\ filling' = FALSE
    /\ last' = NoCreate
    /\ UNCHANGED <<guilds, guild_channels, emoji, users, heap,
                   unavailable_guilds, missing_per_shard, partial, shard_states,
                   retries, pages, deleted, tries, tasks, store, token, orders>>

\* ------------------------------------------------------------ specifications
\* a page of the dump of guild g, or the answer to a single-user request
AnyMemberChunk(g) ==
    \/ \E M \in SUBSET Users, name \in Names, index \in Pages, activity \in BOOLEAN :
          MemberChunk(g, M, name, index, NumPages, FALSE, activity)
    \/ \E u \in Users, name \in Names :
          MemberChunk(g, {u}, name, 0, 1, TRUE, TRUE)

\* every event, in any order
Next ==
    \/ \E s \in Shards, n \in 0..MaxReady : Ready(s, n)
    \/ \E g \in Guilds, sent \in BOOLEAN :
          \E chans \in SUBSET ChannelsOf(g), ems \in SUBSET EmojiOf(g) :
              GuildCreate(g, chans, ems, sent)
    \/ \E g \in Guilds, unavailable \in BOOLEAN : GuildDelete(g, unavailable)
    \/ \E g \in Guilds : AnyMemberChunk(g)
    \/ \E g \in Guilds, u \in Users, name \in Names : MemberAdd(g, u, name)
    \/ \E g \in Guilds, u \in Users, name \in Names : MemberUpdate(g, u, name)
    \/ \E e \in retries : MemberUpdateRetry(e)
    \/ \E g \in Guilds, u \in Users : MemberRemove(g, u)
    \/ \E g \in Guilds : \E c \in ChannelsOf(g) : ChannelCreate(g, c)
    \/ \E g \in Guilds : \E c \in ChannelsOf(g) : ChannelUpdate(g, c)
    \/ \E g \in Guilds : \E c \in ChannelsOf(g) : ChannelDelete(g, c)
    \/ \E s \in Shards, v \in {"Connecting", "Ready"} : ShardStateChange(s, v)

Spec == Init /\ [][Next]_vars

\* the member events of the guilds: the guilds come without channels or emoji,
\* no Ready is seen and the chunks are pages that do not end a dump
NextMembers ==
    \/ \E g \in Guilds : GuildCreate(g, {}, {}, TRUE)
    \/ \E g \in Guilds : GuildDelete(g, FALSE)
    \/ \E g \in Guilds, M \in SUBSET Users, name \in Names :
          MemberChunk(g, M, name, 0, NumPages, FALSE, TRUE)
    \/ \E g \in Guilds, u \in Users, name \in Names : MemberAdd(g, u, name)
    \/ \E g \in Guilds, u \in Users : MemberRemove(g, u)

SpecMembers == Init /\ [][NextMembers]_vars

\* members coming by MemberAdd and by MemberChunk, and MemberUpdate with its
\* delayed retry
NextUpdates ==
    \/ \E g \in Guilds : GuildCreate(g, {}, {}, TRUE)
    \/ \E g \in Guilds, M \in SUBSET Users, name \in Names :
          MemberChunk(g, M, name, 0, NumPages, FALSE, TRUE)
    \/ \E g \in Guilds, u \in Users, name \in Names : MemberAdd(g, u, name)
    \/ \E g \in Guilds, u \in Users, name \in Names : MemberUpdate(g, u, name)
    \/ \E e \in retries : MemberUpdateRetry(e)

SpecUpdates == Init /\ [][NextUpdates]_vars

\* the guilds and their channels and emoji, with members joining and leaving
NextGuilds ==
    \/ \E g \in Guilds, sent \in BOOLEAN :
          \E chans \in SUBSET ChannelsOf(g), ems \in SUBSET EmojiOf(g) :
              GuildCreate(g, chans, ems, sent)
    \/ \E g \in Guilds : GuildDelete(g, FALSE)
    \/ \E g \in Guilds, u \in Users : MemberAdd(g, u, "a")
    \/ \E g \in Guilds, u \in Users : MemberRemove(g, u)
    \/ \E g \in Guilds : \E c \in ChannelsOf(g) : ChannelCreate(g, c)
    \/ \E g \in Guilds : \E c \in ChannelsOf(g) : ChannelUpdate(g, c)
    \/ \E g \in Guilds : \E c \in ChannelsOf(g) : ChannelDelete(g, c)

SpecGuilds == Init /\ [][NextGuilds]_vars

\* the completion of the guilds: Ready, guilds created, deleted and created
\* again, their member chunks in any order and with any page missing, and
\* answers to single-user requests
NextComplete ==
    \/ \E s \in Shards, n \in 0..MaxReady : Ready(s, n)
    \/ \E g \in Guilds : GuildCreate(g, {}, {}, TRUE)
    \/ \E g \in Guilds : GuildDelete(g, FALSE)
    \/ \E g \in Guilds, M \in SUBSET Users, index \in Pages, activity \in BOOLEAN :
          MemberChunk(g, M, "a", index, NumPages, FALSE, activity)
    \/ \E g \in Guilds, u \in Users : MemberChunk(g, {u}, "a", 0, 1, TRUE, TRUE)

SpecComplete == Init /\ [][NextComplete]_vars

\* the initial filling: Ready, the guilds, their member chunks in any order,
\* and the shards changing state
NextFilling ==
    \/ \E s \in Shards, n \in 0..MaxReady : Ready(s, n)
    \/ \E g \in Guilds : GuildCreate(g, {}, {}, TRUE)
    \/ \E g \in Guilds, M \in SUBSET Users, index \in Pages, activity \in BOOLEAN :
          MemberChunk(g, M, "a", index, NumPages, FALSE, activity)
    \/ \E s \in Shards, v \in {"Connecting", "Ready"} : ShardStateChange(s, v)

SpecFilling == Init /\ [][NextFilling]_vars

\* outages: guilds created, deleted with or without the unavailable flag and
\* created again, with members and channels coming in between
NextOutage ==
    \/ \E g \in Guilds : \E chans \in SUBSET ChannelsOf(g) :
          GuildCreate(g, chans, {}, TRUE)
    \/ \E g \in Guilds, unavailable \in BOOLEAN : GuildDelete(g, unavailable)
    \/ \E g \in Guilds, u \in Users : MemberAdd(g, u, "a")
    \/ \E g \in Guilds : \E c \in ChannelsOf(g) : ChannelCreate(g, c)

SpecOutage == Init /\ [][NextOutage]_vars

\* removals racing: guilds and members come while no call is in progress,
\* then the last two memberships of a user are removed by two concurrent
\* calls of update, MemberRemove or GuildDelete, whose steps interleave
NextRace ==
    \/ \E g \in Guilds :
          (\A t \in Tasks : tasks[t] = Idle) /\ GuildCreate(g, {}, {}, TRUE)
    \/ \E g \in Guilds, u \in Users :
          (\A t \in Tasks : tasks[t] = Idle) /\ MemberAdd(g, u, "a")
    \/ \E u \in Users, g1 \in Guilds, g2 \in Guilds :
          \E k1 \in {"remove", "delete"}, k2 \in {"remove", "delete"} :
              RemoveLastTwo(u, g1, g2, k1, k2)
    \/ \E t \in Tasks : TaskTake(t)
    \/ \E t \in Tasks : TaskFetchSub(t)
    \/ \E t \in Tasks : TaskEvict(t)
    \/ \E t \in Tasks : TaskEmoji(t)
    \/ \E t \in Tasks : TaskEnd(t)

SpecRace == Init /\ [][NextRace]_vars

\* the guilds a shard announces in its Ready
GuildsOf(s) == {g \in Guilds : ShardOf(g) = s}

\* the orderly start: one Ready per shard, then a GuildCreate for each guild
\* it announced, then that guild's pages in order; the shards change
\* state at any time
NextBoot ==
    \/ \E s \in Shards :
          /\ s \notin DOMAIN missing_per_shard
          /\ Ready(s, Cardinality(GuildsOf(s)))
    \/ \E g \in Guilds :
          /\ ShardOf(g) \in DOMAIN missing_per_shard
          /\ ~Cached(g)
          /\ \E chans \in SUBSET ChannelsOf(g), ems \in SUBSET EmojiOf(g) :
                GuildCreate(g, chans, ems, TRUE)
    \/ \E g \in Guilds, M \in SUBSET Users :
          /\ Cached(g)
          /\ pages[g] # Pages
          /\ \E activity \in BOOLEAN :
                MemberChunk(g, M, "a", Cardinality(pages[g]), NumPages, FALSE, activity)
    \/ \E s \in Shards, v \in {"Connecting", "Ready"} : ShardStateChange(s, v)

SpecBoot == Init /\ [][NextBoot]_vars
\* A removal of a user's last membership racing with an event that adds the
\* user to another guild.
NextRegain ==
    \/ \E g \in Guilds :
          (\A t \in Tasks : tasks[t] = Idle) /\ GuildCreate(g, {}, {}, TRUE)
    \/ \E g \in Guilds, u \in Users :
          (\A t \in Tasks : tasks[t] = Idle) /\ MemberAdd(g, u, "a")
    \/ \E u \in Users, g1 \in Guilds, g2 \in Guilds :
          \E k1 \in {"remove", "delete"} : RemoveAndAdd(u, g1, g2, k1)
    \/ \E t \in Tasks : TaskTake(t)
    \/ \E t \in Tasks : TaskFetchSub(t)
    \/ \E t \in Tasks : TaskEvict(t)
    \/ \E t \in Tasks : TaskEmoji(t)
    \/ \E t \in Tasks : TaskFind(t)
    \/ \E t \in Tasks : TaskFetchAdd(t)
    \/ \E t \in Tasks : TaskInsert(t)
    \/ \E t \in Tasks : TaskEnd(t)

SpecRegain == Init /\ [][NextRegain]_vars

\* GuildCreate in its two steps around the member-chunk request, and the
\* pages that answer the request.
NextCreate ==
    \/ \E s \in Shards : s \notin DOMAIN missing_per_shard /\ Ready(s, NumGuilds)
    \/ \E g \in Guilds, sent \in BOOLEAN : CreateSend(g, {}, {}, sent)
    \/ \E t \in Tasks : CreateInsert(t)
    \/ \E t \in Tasks, M \in SUBSET Users, index \in Pages : ChunkAnswer(t, M, index)
    \/ \E t \in Tasks : TaskEnd(t)

SpecCreate == Init /\ [][NextCreate]_vars

\* prepare_cold_resume in its steps, with gateway events still being applied.
NextSnapshot ==
    \/ \E g \in Guilds : GuildCreate(g, {}, {}, TRUE)
    \/ \E g \in Guilds, u \in Users : MemberAdd(g, u, "a")
    \/ \E g \in Guilds, u \in Users : MemberRemove(g, u)
    \/ \E order \in Perms(DOMAIN guilds) : ~token.taken /\ SnapCollectGuilds(1, order)
    \/ \E i \in 0..(MaxChunks - 1), accepted \in BOOLEAN : SnapGuildTask(1, i, accepted)
    \/ \E uorder \in Perms(DOMAIN users) : SnapCollectUsers(1, uorder)
    \/ \E i \in 0..(MaxChunks - 1), accepted \in BOOLEAN : SnapUserTask(1, i, accepted)
    \/ SnapFinish(1)

SpecSnapshot == Init /\ [][NextSnapshot]_vars

\* The partition into work orders alone, over lists of guild sizes.
InitOrders ==
    /\ Fresh
    /\ \E sizes \in SizeLists : orders = [sizes |-> sizes, made |-> <<>>, run |-> FALSE]

NextOrders == CollectWorkOrders

SpecOrders == InitOrders /\ [][NextOrders]_vars

\* One life of the cache across a restart: gateway events fill it, it is
\* snapshotted at shutdown, the next process restores it before the event
\* stream resumes; meanwhile keys of the store can expire or be damaged.
Live == ~token.taken /\ frost.phase = "none"

NextResume ==
    \/ \E g \in Guilds : \E chans \in SUBSET ChannelsOf(g) :
          Live /\ GuildCreate(g, chans, {}, TRUE)
    \/ \E g \in Guilds, u \in Users : Live /\ MemberAdd(g, u, "a")
    \/ \E g \in Guilds : Live /\ GuildDelete(g, FALSE)
    \/ \E order \in Perms(DOMAIN guilds), uorder \in Perms(DOMAIN users) :
          \E fails \in SUBSET Keys : Live /\ PrepareColdResume(order, uorder, fails)
    \/ token.taken /\ frost.phase = "none" /\ Restart
    \/ \E key \in Keys : token.taken /\ Expire(key)
    \/ \E key \in Keys, kind \in Garbage : token.taken /\ Corrupt(key, kind)
    \/ \E guild_chunks, user_chunks \in 0..MaxChunks :
          token.taken /\ RestoreColdResume(guild_chunks, user_chunks)
    \/ \E i \in 0..(MaxChunks - 1), err \in StoreErrors : DefrostUsers(i, err)
    \/ RestoreUsersJoined
    \/ \E i \in 0..(MaxChunks - 1), err \in StoreErrors : DefrostGuilds(i, err)
    \/ RestoreGuildsJoined

SpecResume == Init /\ [][NextResume]_vars

\* ------------------------------------------------------------ properties
\* the records of user u that are alive, in the index or held by a member
RecordsOf(u) == {r \in DOMAIN heap : heap[r].id = u}

\* C1: after any sequence of MemberAdd, MemberChunk, MemberRemove and
\* GuildDelete events a user id is in the global user index if and only if
\* that user's mutual-guild counter is greater than 0: the record of an
\* indexed user has a counter above 0, and no record of a user that is not
\* indexed has one.
C1_IndexedIffCounterPositive ==
    \A u \in Users :
        IF u \in DOMAIN users
        THEN U64Positive(heap[users[u]].mutual_servers)
        ELSE \A r \in RecordsOf(u) : ~U64Positive(heap[r].mutual_servers)

\* C2: each indexed user's mutual-guild counter equals the number of cached
\* guilds whose member map holds that user, also after a MemberAdd or a
\* MemberChunk page for a member that is already cached in the guild.
C2_CounterIsGuildCount ==
    \A u \in DOMAIN users :
        heap[users[u]].mutual_servers = Cardinality(GuildsWith(u))

\* C3: for every guild get_guild returns and every member in its member map,
\* the member's user id is in the global user index.
C3_MemberImpliesIndexed ==
    \A g \in DOMAIN guilds : \A u \in DOMAIN guilds[g].members : u \in DOMAIN users

\* C4: the user record every cached member references is the very record the
\* global user index stores under that id.
C4_MemberHoldsIndexRecord ==
    \A g \in DOMAIN guilds : \A u \in DOMAIN guilds[g].members :
        u \in DOMAIN users /\ guilds[g].members[u] = users[u]

\* C5: a GuildCreate that succeeds right after the same GuildCreate (same
\* guild id, same payload) succeeded changes nothing: the guild map, the
\* global channel and emoji indexes, the user index and every user's counter
\* are as the first call left them.
C5_GuildCreateIdempotent ==
    [][last'.repeat => UNCHANGED <<guilds, guild_channels, emoji, users, heap>>]_vars

\* a GuildCreate was just repeated for a guild that has a channel and an emoji
C5_Repeated ==
    /\ last.repeat
    /\ guilds[last.gid].channels # {}
    /\ guilds[last.gid].emoji # {}

\* C6: right after a successful GuildCreate for guild g, get_guild(g) returns
\* a guild that is not complete, whose channels and emoji are all in the
\* global indexes, and the global indexes hold no channel or emoji of g that
\* is not in the new guild's own maps.
C6_IndexesMatchNewGuild ==
    last.gid # 0 =>
        /\ Cached(last.gid)
        /\ ~guilds[last.gid].complete
        /\ guilds[last.gid].channels \subseteq guild_channels
        /\ guilds[last.gid].emoji \subseteq emoji
        /\ guild_channels \cap ChannelsOf(last.gid) \subseteq guilds[last.gid].channels
        /\ emoji \cap EmojiOf(last.gid) \subseteq guilds[last.gid].emoji

\* get_guild(g) returns a guild whose complete flag is set
IsComplete(g) == Cached(g) /\ guilds[g].complete

\* the index of the page that ends a dump
FinalIndex == NumPages - 1

\* this step processed the final page of g's dump for the first time since
\* the record was made
FinalPageStep(g) == FinalIndex \in pages'[g] /\ FinalIndex \notin pages[g]

\* this step was a GuildCreate that put a fresh record for g in the guild map
ReplaceStep(g) == last'.gid = g /\ pages'[g] = {}

\* C7 as stated: the complete flag of a guild becomes true only on
\* processing of the guild's final member-chunk page, and goes from true
\* back to false only when a GuildDelete was applied to the record before
\* the GuildCreate that replaces it.
C7_RegressOnlyAfterDelete ==
    [][\A g \in Guilds :
          /\ (~IsComplete(g) /\ IsComplete(g)') => FinalPageStep(g)
          /\ (IsComplete(g) /\ ~IsComplete(g)') => deleted[g] /\ ReplaceStep(g)]_vars

\* C7 amended: the complete flag of a guild becomes true only on processing
\* of the guild's final member-chunk page, once per guild record, and goes
\* from true back to false only when a GuildCreate for that id replaces the
\* record, with or without a GuildDelete before it.
C7_RegressOnlyByCreate ==
    [][\A g \in Guilds :
          /\ (~IsComplete(g) /\ IsComplete(g)') => FinalPageStep(g)
          /\ (IsComplete(g) /\ ~IsComplete(g)') => ReplaceStep(g)]_vars

\* a guild is complete, its final page processed, next to a guild whose
\* record was made by the last event
C7_CompletedAndReplaced ==
    \E g \in Guilds :
        /\ IsComplete(g)
        /\ FinalIndex \in pages[g]
        /\ last.gid \notin {0, g}

\* C8: a cached guild is complete if and only if every member-chunk page of
\* its dump (indexes 0 .. chunk_count - 1) has been processed since the
\* record was made, whatever the order of the pages and whichever were
\* dropped.
C8_CompleteIffAllPages ==
    \A g \in DOMAIN guilds : guilds[g].complete <=> pages[g] = Pages

\* C9: the filling flag goes from true to false only on a step that leaves
\* every shard's outstanding-guild counter at zero.
C9_FillingEndsAtZeroMissing ==
    [][(filling /\ ~filling') =>
          \A s \in DOMAIN missing_per_shard' : U64IsZero(missing_per_shard'[s])]_vars

\* Ready was processed for every shard, and GuildCreate and every page for
\* every guild
BootDone ==
    /\ \A s \in Shards : s \in DOMAIN missing_per_shard
    /\ \A g \in Guilds : Cached(g) /\ pages[g] = Pages

\* C10: once Ready was processed for every shard and, for every announced
\* guild, GuildCreate and then all of its pages, every guild is complete and
\* the filling flag is false.
C10_BootEndsFilling ==
    BootDone => (\A g \in Guilds : guilds[g].complete) /\ ~filling

\* the guild ids in the outage list
Unavailable == {unavailable_guilds[i] : i \in 1..Len(unavailable_guilds)}

\* C11: a guild id that is in the unavailable-guild list has no live data in
\* the cache: get_guild returns no guild holding members or channels for it,
\* and none of its channels is in the global channel index.
C11_OutageHoldsNoData ==
    \A g \in Unavailable :
        /\ Cached(g) => guilds[g].members = <<>> /\ guilds[g].channels = {}
        /\ guild_channels \cap ChannelsOf(g) = {}

\* C12: right after a successful GuildCreate for guild g, g is not in the
\* unavailable-guild list, whatever GuildDelete events with the unavailable
\* flag came before.
C12_CreatedIsAvailable ==
    last.gid # 0 => last.gid \notin Unavailable

\* the guilds, the users, the global indexes and the counters
CacheData ==
    <<guilds, guild_channels, emoji, users, heap, unavailable_guilds,
      missing_per_shard, partial, filling>>

\* this step handled an event for a guild that is not cached
UncachedGuildStep ==
    \E g \in Guilds :
        /\ ~Cached(g)
        /\ \/ \E unavailable \in BOOLEAN : GuildDelete(g, unavailable)
           \/ AnyMemberChunk(g)
           \/ \E u \in Users, name \in Names : MemberAdd(g, u, name)
           \/ \E u \in Users, name \in Names : MemberUpdate(g, u, name)
           \/ \E u \in Users : MemberRemove(g, u)
           \/ \E c \in ChannelsOf(g) : ChannelCreate(g, c)
           \/ \E c \in ChannelsOf(g) : ChannelUpdate(g, c)
           \/ \E c \in ChannelsOf(g) : ChannelDelete(g, c)

\* this step handled a member event for a user that is no member of the
\* cached guild it names, or deleted a channel the cached guild does not hold
UncachedMemberStep ==
    \E g \in DOMAIN guilds :
        \/ \E u \in Users \ DOMAIN guilds[g].members :
              \/ MemberRemove(g, u)
              \/ \E name \in Names : MemberUpdate(g, u, name)
              \/ \E name \in Names : MemberUpdateRetry(<<g, u, name>>)
        \/ \E c \in ChannelsOf(g) \ guilds[g].channels : ChannelDelete(g, c)

\* C18: an event that references a guild, a member or a channel that is not
\* cached leaves the guilds, the users, the global indexes and the counters
\* unchanged.
C18_NotFoundIsSkipped ==
    [][(UncachedGuildStep \/ UncachedMemberStep) => UNCHANGED CacheData]_vars

\* C20: a MemberUpdate event is attempted at most twice; the second attempt
\* is made only when the first found the guild cached and the member
\* missing, it is a later step of its own, and the attempts made for one
\* event replace the member record at most once.
C20_AtMostOneRetry ==
    /\ tries.done.attempts <= 2
    /\ tries.done.applied <= 1
    /\ tries.done.attempts = 2 => tries.done.missing
    /\ retries \subseteq tries.first

\* a second attempt found the member that the first had missed, and replaced it
C20_RetryApplied ==
    tries.done.attempts = 2 /\ tries.done.applied = 1

\* the calls that saw the counter of user u reach zero
SawZero(u) == {t \in Tasks : tasks[t].pc # "idle" /\ u \in tasks[t].zero}

\* the calls that evicted user u from the index
Evicted(u) == {t \in Tasks : tasks[t].pc # "idle" /\ u \in tasks[t].evicted}

\* both concurrent removals have run to their end
BothDone == \A t \in Tasks : tasks[t].pc = "done"

\* C19: when the last two memberships of a user are removed by two
\* concurrent calls, at no time have both seen the counter reach zero, and
\* when both are through exactly one has seen it and has evicted the user
\* from the index, once.
C19_OneRemovalEvicts ==
    \A t \in Tasks : tasks[t].pc # "idle" =>
        LET u == tasks[t].about
        IN  /\ Cardinality(SawZero(u)) <= 1
            /\ Cardinality(Evicted(u)) <= 1
            /\ BothDone =>
                   /\ Cardinality(SawZero(u)) = 1
                   /\ Evicted(u) = SawZero(u)
                   /\ u \notin DOMAIN users

\* a MemberRemove and a GuildDelete that raced are both through
C19_RaceOver ==
    /\ BothDone
    /\ tasks[1].kind # tasks[2].kind

\* the entities of one work order
Entities(sizes, order) == Sum(sizes, {order[k] : k \in DOMAIN order})

\* C14: no guild chunk made by the partition holds more entities than the
\* ceiling; stated for the caches in which every guild alone is within the
\* ceiling, so that a chunk over the ceiling is never forced by one guild.
C14_ChunkWithinCeiling ==
    (orders.run /\ \A i \in DOMAIN orders.sizes : orders.sizes[i] <= Ceiling) =>
        \A k \in DOMAIN orders.made : Entities(orders.sizes, orders.made[k]) <= Ceiling

\* C15: two guilds of 150,000 entities together are put into exactly two
\* chunks, however the entities are split and whichever guild comes first.
C15_TwoChunksFor150000 ==
    (orders.run /\ Len(orders.sizes) = 2 /\ orders.sizes[1] + orders.sizes[2] = 150000)
        => Len(orders.made) = 2

\* restore_cold_resume is over: it returned, or its task was aborted
Returned == frost.phase \in {"ok", "err"}

Aborted == frost.phase = "aborted"

\* the chunks the call of restore_cold_resume was told of
NamedChunks ==
    {<<"user", i>> : i \in 0..(frost.user_chunks - 1)}
        \cup {<<"guild", i>> : i \in 0..(frost.guild_chunks - 1)}

\* C16: when a chunk named by the resume token cannot be obtained or decoded,
\* restore_cold_resume is not aborted: it returns an error tagged with the
\* phase of a chunk that failed.
C16_FailedChunkIsTaggedError ==
    frost.bad # {} =>
        /\ ~Aborted
        /\ Returned => /\ frost.phase = "err"
                       /\ \E b \in frost.bad : frost.tag = b[1] \o "s"

\* C17: filling is stored false by restore_cold_resume only once every user
\* chunk and every guild chunk named was restored, none having failed.
C17_FillingEndsAfterAllRestored ==
    [][(filling /\ ~filling') =>
            /\ frost'.phase = "ok"
            /\ frost'.restored = NamedChunks
            /\ frost'.bad = {}]_vars

\* a restore of at least one chunk of each kind has ended filling
C17_RestoredAll ==
    /\ frost.phase = "ok"
    /\ ~filling
    /\ frost.user_chunks >= 1 /\ frost.guild_chunks >= 1
    /\ frost.restored = NamedChunks

\* the ids the cache holds: guilds, members of each guild, users
IdSets ==
    [guilds |-> DOMAIN guilds,
     members |-> [g \in DOMAIN guilds |-> DOMAIN guilds[g].members],
     users |-> DOMAIN users]

\* restore_cold_resume was called with the pair prepare_cold_resume returned,
\* the store has kept every chunk and served every read, and the call is over
RoundTripOver ==
    /\ Returned \/ Aborted
    /\ frost.trip
    /\ token.intact
    /\ frost.bad = {}

\* C13: prepare_cold_resume followed by restore_cold_resume with the returned
\* pair, on a store that loses nothing, gives back a cache with the guild
\* ids, the member ids of each guild and the user ids it had at the snapshot.
C13_RoundTripKeepsIds ==
    RoundTripOver => frost.phase = "ok" /\ IdSets = token.snap

\* this step is ChannelDelete for channel c held by the cached guild g
DeletesChannel(g, c) == Cached(g) /\ c \in guilds[g].channels /\ ChannelDelete(g, c)

\* C21: after ChannelDelete for a channel of a cached guild the channel is
\* neither in that guild's channel map nor in the global channel index.
C21_ChannelDeleteDestroys ==
    [][\A g \in Guilds : \A c \in ChannelsOf(g) :
            DeletesChannel(g, c) =>
                /\ c \notin guilds'[g].channels
                /\ c \notin guild_channels']_vars

\* this step is a GuildCreate whose member-chunk request failed
FailedCreateStep ==
    \E g \in Guilds : \E chans \in SUBSET ChannelsOf(g), ems \in SUBSET EmojiOf(g) :
        GuildCreate(g, chans, ems, FALSE)

\* C25: a GuildCreate whose member-chunk request fails leaves the guild map,
\* the global indexes, the users and the unavailable list as they were.
C25_FailedCreateChangesNothing ==
    [][FailedCreateStep =>
            /\ guilds' = guilds
            /\ guild_channels' = guild_channels
            /\ emoji' = emoji
            /\ users' = users
            /\ unavailable_guilds' = unavailable_guilds]_vars

\* no Ready was recorded for shard s: missing_per_shard.get(&shard_id) is None
ShardUnknown(s) == s \notin DOMAIN missing_per_shard

\* this step processes the final page of the dump of the cached guild g
FinalChunkStep(g) ==
    /\ Cached(g)
    /\ \E M \in SUBSET Users, activity \in BOOLEAN :
          MemberChunk(g, M, "a", FinalIndex, NumPages, FALSE, activity)

\* C28: processing the final member-chunk page of a cached guild never
\* aborts: the counter of the delivering shard is there to be decremented.
C28_FinalPageNeverAborts ==
    [][\A g \in Guilds : FinalChunkStep(g) => ~ShardUnknown(ShardOf(g))]_vars

\* the 64-bit counters of the cache: a value below 0 stands for one that
\* wrapped around, 2^64 less
U64Wrapped(n) == n < 0

\* C30: no user's mutual-guild counter and no shard's outstanding-guild
\* counter is decremented while it is 0.
C30_NoCounterWraps ==
    /\ \A r \in DOMAIN heap : ~U64Wrapped(heap[r].mutual_servers)
    /\ \A s \in DOMAIN missing_per_shard : ~U64Wrapped(missing_per_shard[s])

\* the chunks of one kind the call of restore_cold_resume was told of
NamedOf(kind) == {c \in NamedChunks : c[1] = kind}

\* this step is a guild defroster reading its chunk
GuildChunkRead ==
    \E i \in 0..(MaxChunks - 1), err \in StoreErrors : DefrostGuilds(i, err)

\* C22: a guild chunk is read only when every user chunk has been fetched and
\* inserted into the user index, none having failed or being outstanding.
C22_UsersBeforeGuilds ==
    [][GuildChunkRead =>
            /\ NamedOf("user") \subseteq frost.restored
            /\ \A c \in frost.bad : c[1] # "user"]_vars

\* a guild was rebuilt from its chunk after the user chunk was restored
C22_GuildAfterUsers ==
    /\ <<"guild", 0>> \in frost.restored
    /\ <<"user", 0>> \in frost.restored
    /\ guilds # <<>>
    /\ users # <<>>

\* the key of a chunk
KeyOf(c) == IF c[1] = "guild" THEN GuildKey(c[2]) ELSE UserKey(c[2])

\* this step is the defroster of chunk c, served by the store as err says
DefrostWith(c, err) ==
    IF c[1] = "guild" THEN DefrostGuilds(c[2], err) ELSE DefrostUsers(c[2], err)

\* C23: a defroster reads a chunk that was not read before in this restore,
\* and its key leaves the store only when the read succeeded; once
\* restore_cold_resume has returned Ok no key of a named chunk is in the store.
C23_ChunkConsumedOnce ==
    /\ [](frost.phase = "ok" => \A c \in NamedChunks : KeyOf(c) \notin DOMAIN store)
    /\ [][\A c \in {<<"guild", i>> : i \in 0..(MaxChunks - 1)}
                    \cup {<<"user", i>> : i \in 0..(MaxChunks - 1)} :
              \A err \in StoreErrors :
                  DefrostWith(c, err) =>
                      /\ c \notin frost.restored \cup frost.bad
                      /\ (KeyOf(c) \in DOMAIN store /\ KeyOf(c) \notin DOMAIN store')
                            => Fetch(store, KeyOf(c), err) = "ok"]_vars

\* a restore that returned Ok has consumed a guild chunk and a user chunk
C23_KeysConsumed ==
    /\ frost.phase = "ok"
    /\ <<"guild", 0>> \in NamedChunks /\ <<"user", 0>> \in NamedChunks
    /\ \A c \in NamedChunks : c \in frost.restored /\ KeyOf(c) \notin DOMAIN store

\* the users of the chunks the store holds under the keys of the token
StoredUsers ==
    UNION {{store[UserKey(i)].items[k].id : k \in DOMAIN store[UserKey(i)].items} :
              i \in {j \in 0..(token.users - 1) : UserKey(j) \in DOMAIN store}}

\* C24: when prepare_cold_resume has cleared the user map, every user that
\* was in it is in a user chunk the store accepted.
C24_ClearedUsersAreStored ==
    [][(~token.taken /\ token'.taken) => token'.snap.users \subseteq StoredUsers']_vars

\* a removal of the last membership and an addition of the same user, which
\* started together, are both through
RegainOver ==
    /\ BothDone
    /\ \E t \in Tasks : tasks[t].kind = "add"

\* C26: when the removal of a user's last membership and the addition of the
\* user to another guild ran concurrently, the user ends in the index with
\* counter 1 and the new member holds the indexed record.
C26_RegainedUserStays ==
    RegainOver =>
        \A t \in Tasks : tasks[t].kind = "add" =>
            LET u == tasks[t].u
                g == tasks[t].g
            IN  /\ u \in DOMAIN users
                /\ heap[users[u]].mutual_servers = 1
                /\ Cached(g) /\ u \in DOMAIN guilds[g].members
                /\ guilds[g].members[u] = users[u]

\* C27: no page that answers the member-chunk request of a GuildCreate is
\* processed while the guild is not in the guild map.
C27_NoPageBeforeInsert ==
    \A t \in Tasks : (tasks[t].pc # "idle" /\ tasks[t].kind = "create") =>
        tasks[t].dropped = {}

\* C29: prepare_cold_resume is not aborted by the events applied while it
\* runs: every entry its tasks take out of the maps is there.
C29_SnapshotNeverAborts ==
    \A t \in Tasks : tasks[t].pc # "aborted"
====
